---- MODULE Spec2Model ----
(***************************************************************************)
(* A model of build.py, the build orchestrator: load_bldfile parses the    *)
(* build-description file into five dictionaries keyed by program name,    *)
(* detect_compiler picks the compiler, and main walks the declared         *)
(* programs in insertion order, running for each one the file-list check,  *)
(* prepare_directories, validate_sources, validate_options and             *)
(* compile_program, every failure ending the process.                      *)
(*                                                                         *)
(* A Python str is a sequence of characters, each character a string: a    *)
(* printable ASCII character but the grave accent, tab, line feed, form     *)
(* feed and carriage return are themselves, every other character is named *)
(* by its code point in hexadecimal ("U+000B", "U+0060", "U+00E9",         *)
(* "U+1F600"). None is a value that is no str.                             *)
(***************************************************************************)
EXTENDS Integers, Sequences, FiniteSets, TLC

VARIABLES
    pc,              \* position of the process in main / load_bldfile
    progdic,         \* keys of progdic in insertion order (value = key)
    srcdic,          \* prog -> src value
    bindic,          \* prog -> bin value
    filedic,         \* prog -> file value
    optdic,          \* prog -> option value
    prog,            \* load_bldfile's local `prog`, Unbound before a prog= line
    system_platform, \* platform.system(), read by detect_compiler
    compiler,        \* main's local `compiler`
    idx,             \* position of main's for loop in progdic
    source_files,    \* main's local `source_files`
    options,         \* main's local `options`
    dirs,            \* directories that exist on disk
    commands,        \* [argv, status, wrote] of every child process, in order
    trace,           \* <<step, program>> of every step main has performed
    exitcode,        \* Running, or the exit status of the process
    error,           \* which failure ended the process
    log              \* history: the lines load_bldfile has read (when recorded)

vars == <<pc, progdic, srcdic, bindic, filedic, optdic, prog, system_platform,
          compiler, idx, source_files, options, dirs, commands, trace,
          exitcode, error, log>>

-----------------------------------------------------------------------------
(* Python values *)

None == <<"None">>
Unbound == <<"Unbound">>
Running == -1

\* every character of which str.isspace() is true: str.strip() and
\* str.split() treat them as whitespace
Whitespace ==
    {" ", "\t", "\n", "\r", "\f", "U+000B", "U+001C", "U+001D", "U+001E",
     "U+001F", "U+0085", "U+00A0", "U+1680", "U+2000", "U+2001", "U+2002",
     "U+2003", "U+2004", "U+2005", "U+2006", "U+2007", "U+2008", "U+2009",
     "U+200A", "U+2028", "U+2029", "U+202F", "U+205F", "U+3000"}

\* str.lstrip()
RECURSIVE lstrip(_)
lstrip(s) ==
    IF s # <<>> /\ Head(s) \in Whitespace THEN lstrip(Tail(s)) ELSE s

\* str.rstrip()
RECURSIVE rstrip(_)
rstrip(s) ==
    IF s # <<>> /\ s[Len(s)] \in Whitespace
    THEN rstrip(SubSeq(s, 1, Len(s) - 1))
    ELSE s

\* str.strip()
strip(s) == rstrip(lstrip(s))

\* str.startswith(c) for a one-character prefix
startswith(s, c) == s # <<>> /\ Head(s) = c

\* c in s
contains(s, c) == \E k \in 1..Len(s) : s[k] = c

\* s.find(c), 1-based; 0 when absent
find(s, c) ==
    IF contains(s, c)
    THEN CHOOSE k \in 1..Len(s) : s[k] = c /\ \A j \in 1..(k - 1) : s[j] # c
    ELSE 0

\* s.split(c, maxsplit=1) for a line that contains c
split_first(s, c) ==
    <<SubSeq(s, 1, find(s, c) - 1), SubSeq(s, find(s, c) + 1, Len(s))>>

\* s.split(c): every piece between separators, empty pieces kept
RECURSIVE split_on(_, _)
split_on(s, c) ==
    IF ~contains(s, c)
    THEN <<s>>
    ELSE <<SubSeq(s, 1, find(s, c) - 1)>>
             \o split_on(SubSeq(s, find(s, c) + 1, Len(s)), c)

\* the first whitespace-free word of s (s starts with a non-blank), and the rest
RECURSIVE word_len(_)
word_len(s) ==
    IF s = <<>> \/ Head(s) \in Whitespace THEN 0 ELSE 1 + word_len(Tail(s))

\* s.split(): the maximal runs of non-whitespace characters
RECURSIVE split_ws(_)
split_ws(s) ==
    IF lstrip(s) = <<>>
    THEN <<>>
    ELSE <<SubSeq(lstrip(s), 1, word_len(lstrip(s)))>>
             \o split_ws(SubSeq(lstrip(s), word_len(lstrip(s)) + 1,
                                Len(lstrip(s))))

\* sep.join(parts)
RECURSIVE join(_, _)
join(sep, parts) ==
    IF parts = <<>> THEN <<>>
    ELSE IF Len(parts) = 1 THEN parts[1]
    ELSE parts[1] \o sep \o join(sep, Tail(parts))

\* dict.get(key): None when the key is absent
get(dic, key) == IF key \in DOMAIN dic THEN dic[key] ELSE None

\* a dict store that keeps the value a key already has (first entry wins)
put_if_absent(dic, key, value) ==
    [k \in DOMAIN dic \cup {key} |->
        IF k \in DOMAIN dic THEN dic[k] ELSE value]

\* dic[key] = value
put(dic, key, value) ==
    [k \in DOMAIN dic \cup {key} |-> IF k = key THEN value ELSE dic[k]]

\* a key store that moves a repeated key to the end
insert_moving(keys, value) ==
    Append(SelectSeq(keys, LAMBDA k : k # value), value)

\* progdic[value] = value on an insertion-ordered dict: a new key goes last,
\* an existing key keeps its place
insert(keys, value) ==
    IF \E k \in 1..Len(keys) : keys[k] = value
    THEN keys
    ELSE Append(keys, value)

\* Python truthiness of a str-or-None value
truthy(v) == v # None /\ v # <<>>

-----------------------------------------------------------------------------
(* The words of the build file *)

K_prog == <<"p", "r", "o", "g">>
K_src == <<"s", "r", "c">>
K_bin == <<"b", "i", "n">>
K_file == <<"f", "i", "l", "e">>
K_option == <<"o", "p", "t", "i", "o", "n">>


kv(key, value) == key \o <<"=">> \o value
nl(text) == text \o <<"\n">>

\* the lines of the build file the model reads (each as the file iterator
\* yields it, newline included)
Lines ==
    { nl(kv(K_prog, <<"a">>)), nl(kv(K_prog, <<"b">>)),
      nl(kv(K_src, <<".", "/", "s">>)), nl(kv(K_src, <<"m">>)),
      nl(kv(K_bin, <<"o">>)), nl(kv(K_bin, <<"m">>)),
      nl(kv(K_bin, <<"s", "/", "x">>)),
      nl(kv(K_file, <<"x", " ", "z", " ", "x">>)), nl(kv(K_file, <<"a">>)),
      nl(kv(K_option, <<"W", ";", "O">>)),
      nl(<<"#", "c">>), nl(<<>>), nl(kv(<<"k">>, <<"v">>)) }

-----------------------------------------------------------------------------
(* The collaborators: platform, filesystem, PATH *)

Platforms == {"Linux", "Darwin", "Windows", "Other"}

\* what shutil.which can answer
GppName == <<"g", "+", "+">>
WhichGpp == <<"C", ":", "\\", "g", "+", "+">>
WhichCl == <<"C", ":", "\\", "c", "l">>

\* the regular files on disk when the run starts, written with "/"
Files ==
    { <<"s", "/", "x">>, <<"s", "/", "y">>,
      <<"B", "l", "d", "f", "i", "l", "e">> }

\* the directories on disk when the run starts
InitDirs == { <<"s">> }

\* the working directory of the process, /up/c, by its components; the disk
\* names what lies under it relative to it and everything else from the root
Cwd == <<<<"u", "p">>, <<"c">>>>

\* the files the compiler has written so far
written == { commands[k].wrote : k \in 1..Len(commands) } \ {None}

\* the disk as the process finds it
disk == [dirs |-> dirs, files |-> Files \cup written]

\* the separators of a path on the platform
Seps(plat) == IF plat = "Windows" THEN {"/", "\\"} ELSE {"/"}

\* the code point of a character
HexDigits == "0123456789ABCDEF"
Ascii32 ==
    " !\"#$%&'()*+,-./0123456789:;<=>?@ABCDEFGHIJKLMNOPQRSTUVWXYZ[\\]^_"
Ascii97 == "abcdefghijklmnopqrstuvwxyz{|}~"
RECURSIVE hex_val(_)
hex_val(h) ==
    IF h = "" THEN 0
    ELSE 16 * hex_val(SubSeq(h, 1, Len(h) - 1))
         + (CHOOSE d \in 0..15 :
                SubSeq(HexDigits, d + 1, d + 1) = SubSeq(h, Len(h), Len(h)))
ord(c) ==
    IF Len(c) > 1 THEN hex_val(SubSeq(c, 3, Len(c)))
    ELSE IF c = "\t" THEN 9
    ELSE IF c = "\n" THEN 10
    ELSE IF c = "\f" THEN 12
    ELSE IF c = "\r" THEN 13
    ELSE IF \E k \in 1..Len(Ascii97) : SubSeq(Ascii97, k, k) = c
    THEN 96 + (CHOOSE k \in 1..Len(Ascii97) : SubSeq(Ascii97, k, k) = c)
    ELSE 31 + (CHOOSE k \in 1..Len(Ascii32) : SubSeq(Ascii32, k, k) = c)

\* the character of a code point
RECURSIVE hex_str(_, _)
hex_str(n, width) ==
    IF n = 0 /\ width <= 0 THEN ""
    ELSE hex_str(n \div 16, width - 1)
         \o SubSeq(HexDigits, (n % 16) + 1, (n % 16) + 1)
chr(n) ==
    IF n = 9 THEN "\t"
    ELSE IF n = 10 THEN "\n"
    ELSE IF n = 12 THEN "\f"
    ELSE IF n = 13 THEN "\r"
    ELSE IF n >= 32 /\ n <= 95 THEN SubSeq(Ascii32, n - 31, n - 31)
    ELSE IF n >= 97 /\ n <= 126 THEN SubSeq(Ascii97, n - 96, n - 96)
    ELSE "U+" \o hex_str(n, 4)

\* n is one of the code points <<first, last, step, ...>> of a range of R
in_ranges(n, R) ==
    \E r \in R : n >= r[1] /\ n <= r[2] /\ (n - r[1]) % r[3] = 0

\* the code points with a one-character lower case: <<first, last, step,
\* distance to the lower case>>
LowerRanges ==
    { <<65, 90, 1, 32>>, <<192, 214, 1, 32>>, <<216, 222, 1, 32>>,
      <<256, 302, 2, 1>>, <<306, 310, 2, 1>>, <<313, 327, 2, 1>>,
      <<330, 374, 2, 1>>, <<376, 376, 1, -121>>, <<377, 381, 2, 1>>,
      <<385, 385, 1, 210>>, <<386, 388, 2, 1>>, <<390, 390, 1, 206>>,
      <<391, 391, 1, 1>>, <<393, 394, 1, 205>>, <<395, 395, 1, 1>>,
      <<398, 398, 1, 79>>, <<399, 399, 1, 202>>, <<400, 400, 1, 203>>,
      <<401, 401, 1, 1>>, <<403, 403, 1, 205>>, <<404, 404, 1, 207>>,
      <<406, 406, 1, 211>>, <<407, 407, 1, 209>>, <<408, 408, 1, 1>>,
      <<412, 412, 1, 211>>, <<413, 413, 1, 213>>, <<415, 415, 1, 214>>,
      <<416, 420, 2, 1>>, <<422, 422, 1, 218>>, <<423, 423, 1, 1>>,
      <<425, 425, 1, 218>>, <<428, 428, 1, 1>>, <<430, 430, 1, 218>>,
      <<431, 431, 1, 1>>, <<433, 434, 1, 217>>, <<435, 437, 2, 1>>,
      <<439, 439, 1, 219>>, <<440, 440, 1, 1>>, <<444, 444, 1, 1>>,
      <<452, 452, 1, 2>>, <<453, 453, 1, 1>>, <<455, 455, 1, 2>>,
      <<456, 456, 1, 1>>, <<458, 458, 1, 2>>, <<459, 475, 2, 1>>,
      <<478, 494, 2, 1>>, <<497, 497, 1, 2>>, <<498, 500, 2, 1>>,
      <<502, 502, 1, -97>>, <<503, 503, 1, -56>>, <<504, 542, 2, 1>>,
      <<544, 544, 1, -130>>, <<546, 562, 2, 1>>, <<570, 570, 1, 10795>>,
      <<571, 571, 1, 1>>, <<573, 573, 1, -163>>, <<574, 574, 1, 10792>>,
      <<577, 577, 1, 1>>, <<579, 579, 1, -195>>, <<580, 580, 1, 69>>,
      <<581, 581, 1, 71>>, <<582, 590, 2, 1>>, <<880, 882, 2, 1>>,
      <<886, 886, 1, 1>>, <<895, 895, 1, 116>>, <<902, 902, 1, 38>>,
      <<904, 906, 1, 37>>, <<908, 908, 1, 64>>, <<910, 911, 1, 63>>,
      <<913, 929, 1, 32>>, <<931, 939, 1, 32>>, <<975, 975, 1, 8>>,
      <<984, 1006, 2, 1>>, <<1012, 1012, 1, -60>>, <<1015, 1015, 1, 1>>,
      <<1017, 1017, 1, -7>>, <<1018, 1018, 1, 1>>, <<1021, 1023, 1, -130>>,
      <<1024, 1039, 1, 80>>, <<1040, 1071, 1, 32>>, <<1120, 1152, 2, 1>>,
      <<1162, 1214, 2, 1>>, <<1216, 1216, 1, 15>>, <<1217, 1229, 2, 1>>,
      <<1232, 1326, 2, 1>>, <<1329, 1366, 1, 48>>, <<4256, 4293, 1, 7264>>,
      <<4295, 4295, 1, 7264>>, <<4301, 4301, 1, 7264>>,
      <<5024, 5103, 1, 38864>>, <<5104, 5109, 1, 8>>,
      <<7312, 7354, 1, -3008>>, <<7357, 7359, 1, -3008>>,
      <<7680, 7828, 2, 1>>, <<7838, 7838, 1, -7615>>, <<7840, 7934, 2, 1>>,
      <<7944, 7951, 1, -8>>, <<7960, 7965, 1, -8>>, <<7976, 7983, 1, -8>>,
      <<7992, 7999, 1, -8>>, <<8008, 8013, 1, -8>>, <<8025, 8031, 2, -8>>,
      <<8040, 8047, 1, -8>>, <<8072, 8079, 1, -8>>, <<8088, 8095, 1, -8>>,
      <<8104, 8111, 1, -8>>, <<8120, 8121, 1, -8>>, <<8122, 8123, 1, -74>>,
      <<8124, 8124, 1, -9>>, <<8136, 8139, 1, -86>>, <<8140, 8140, 1, -9>>,
      <<8152, 8153, 1, -8>>, <<8154, 8155, 1, -100>>, <<8168, 8169, 1, -8>>,
      <<8170, 8171, 1, -112>>, <<8172, 8172, 1, -7>>,
      <<8184, 8185, 1, -128>>, <<8186, 8187, 1, -126>>,
      <<8188, 8188, 1, -9>>, <<8486, 8486, 1, -7517>>,
      <<8490, 8490, 1, -8383>>, <<8491, 8491, 1, -8262>>,
      <<8498, 8498, 1, 28>>, <<8544, 8559, 1, 16>>, <<8579, 8579, 1, 1>>,
      <<9398, 9423, 1, 26>>, <<11264, 11311, 1, 48>>, <<11360, 11360, 1, 1>>,
      <<11362, 11362, 1, -10743>>, <<11363, 11363, 1, -3814>>,
      <<11364, 11364, 1, -10727>>, <<11367, 11371, 2, 1>>,
      <<11373, 11373, 1, -10780>>, <<11374, 11374, 1, -10749>>,
      <<11375, 11375, 1, -10783>>, <<11376, 11376, 1, -10782>>,
      <<11378, 11378, 1, 1>>, <<11381, 11381, 1, 1>>,
      <<11390, 11391, 1, -10815>>, <<11392, 11490, 2, 1>>,
      <<11499, 11501, 2, 1>>, <<11506, 11506, 1, 1>>, <<42560, 42604, 2, 1>>,
      <<42624, 42650, 2, 1>>, <<42786, 42798, 2, 1>>, <<42802, 42862, 2, 1>>,
      <<42873, 42875, 2, 1>>, <<42877, 42877, 1, -35332>>,
      <<42878, 42886, 2, 1>>, <<42891, 42891, 1, 1>>,
      <<42893, 42893, 1, -42280>>, <<42896, 42898, 2, 1>>,
      <<42902, 42920, 2, 1>>, <<42922, 42922, 1, -42308>>,
      <<42923, 42923, 1, -42319>>, <<42924, 42924, 1, -42315>>,
      <<42925, 42925, 1, -42305>>, <<42926, 42926, 1, -42308>>,
      <<42928, 42928, 1, -42258>>, <<42929, 42929, 1, -42282>>,
      <<42930, 42930, 1, -42261>>, <<42931, 42931, 1, 928>>,
      <<42932, 42946, 2, 1>>, <<42948, 42948, 1, -48>>,
      <<42949, 42949, 1, -42307>>, <<42950, 42950, 1, -35384>>,
      <<42951, 42953, 2, 1>>, <<42960, 42960, 1, 1>>, <<42966, 42968, 2, 1>>,
      <<42997, 42997, 1, 1>>, <<65313, 65338, 1, 32>>,
      <<66560, 66599, 1, 40>>, <<66736, 66771, 1, 40>>,
      <<66928, 66938, 1, 39>>, <<66940, 66954, 1, 39>>,
      <<66956, 66962, 1, 39>>, <<66964, 66965, 1, 39>>,
      <<68736, 68786, 1, 64>>, <<71840, 71871, 1, 32>>,
      <<93760, 93791, 1, 32>>, <<125184, 125217, 1, 34>> }

\* the cased code points that are not case-ignorable: <<first, last, step>>
CasedRanges ==
    { <<65, 90, 1>>, <<97, 122, 1>>, <<170, 170, 1>>, <<181, 181, 1>>,
      <<186, 186, 1>>, <<192, 214, 1>>, <<216, 246, 1>>, <<248, 442, 1>>,
      <<444, 447, 1>>, <<452, 659, 1>>, <<661, 687, 1>>, <<880, 883, 1>>,
      <<886, 887, 1>>, <<891, 893, 1>>, <<895, 895, 1>>, <<902, 904, 2>>,
      <<905, 906, 1>>, <<908, 910, 2>>, <<911, 929, 1>>, <<931, 1013, 1>>,
      <<1015, 1153, 1>>, <<1162, 1327, 1>>, <<1329, 1366, 1>>,
      <<1376, 1416, 1>>, <<4256, 4293, 1>>, <<4295, 4295, 1>>,
      <<4301, 4301, 1>>, <<4304, 4346, 1>>, <<4349, 4351, 1>>,
      <<5024, 5109, 1>>, <<5112, 5117, 1>>, <<7296, 7304, 1>>,
      <<7312, 7354, 1>>, <<7357, 7359, 1>>, <<7424, 7467, 1>>,
      <<7531, 7543, 1>>, <<7545, 7578, 1>>, <<7680, 7957, 1>>,
      <<7960, 7965, 1>>, <<7968, 8005, 1>>, <<8008, 8013, 1>>,
      <<8016, 8023, 1>>, <<8025, 8031, 2>>, <<8032, 8061, 1>>,
      <<8064, 8116, 1>>, <<8118, 8124, 1>>, <<8126, 8126, 1>>,
      <<8130, 8132, 1>>, <<8134, 8140, 1>>, <<8144, 8147, 1>>,
      <<8150, 8155, 1>>, <<8160, 8172, 1>>, <<8178, 8180, 1>>,
      <<8182, 8188, 1>>, <<8450, 8450, 1>>, <<8455, 8455, 1>>,
      <<8458, 8467, 1>>, <<8469, 8469, 1>>, <<8473, 8477, 1>>,
      <<8484, 8490, 2>>, <<8491, 8493, 1>>, <<8495, 8500, 1>>,
      <<8505, 8505, 1>>, <<8508, 8511, 1>>, <<8517, 8521, 1>>,
      <<8526, 8526, 1>>, <<8544, 8575, 1>>, <<8579, 8580, 1>>,
      <<9398, 9449, 1>>, <<11264, 11387, 1>>, <<11390, 11492, 1>>,
      <<11499, 11502, 1>>, <<11506, 11507, 1>>, <<11520, 11557, 1>>,
      <<11559, 11559, 1>>, <<11565, 11565, 1>>, <<42560, 42605, 1>>,
      <<42624, 42651, 1>>, <<42786, 42863, 1>>, <<42865, 42887, 1>>,
      <<42891, 42894, 1>>, <<42896, 42954, 1>>, <<42960, 42961, 1>>,
      <<42963, 42965, 2>>, <<42966, 42969, 1>>, <<42997, 42998, 1>>,
      <<43002, 43002, 1>>, <<43824, 43866, 1>>, <<43872, 43880, 1>>,
      <<43888, 43967, 1>>, <<64256, 64262, 1>>, <<64275, 64279, 1>>,
      <<65313, 65338, 1>>, <<65345, 65370, 1>>, <<66560, 66639, 1>>,
      <<66736, 66771, 1>>, <<66776, 66811, 1>>, <<66928, 66938, 1>>,
      <<66940, 66954, 1>>, <<66956, 66962, 1>>, <<66964, 66965, 1>>,
      <<66967, 66977, 1>>, <<66979, 66993, 1>>, <<66995, 67001, 1>>,
      <<67003, 67004, 1>>, <<68736, 68786, 1>>, <<68800, 68850, 1>>,
      <<71840, 71903, 1>>, <<93760, 93823, 1>>, <<119808, 119892, 1>>,
      <<119894, 119964, 1>>, <<119966, 119967, 1>>, <<119970, 119970, 1>>,
      <<119973, 119974, 1>>, <<119977, 119980, 1>>, <<119982, 119993, 1>>,
      <<119995, 119997, 2>>, <<119998, 120003, 1>>, <<120005, 120069, 1>>,
      <<120071, 120074, 1>>, <<120077, 120084, 1>>, <<120086, 120092, 1>>,
      <<120094, 120121, 1>>, <<120123, 120126, 1>>, <<120128, 120132, 1>>,
      <<120134, 120134, 1>>, <<120138, 120144, 1>>, <<120146, 120485, 1>>,
      <<120488, 120512, 1>>, <<120514, 120538, 1>>, <<120540, 120570, 1>>,
      <<120572, 120596, 1>>, <<120598, 120628, 1>>, <<120630, 120654, 1>>,
      <<120656, 120686, 1>>, <<120688, 120712, 1>>, <<120714, 120744, 1>>,
      <<120746, 120770, 1>>, <<120772, 120779, 1>>, <<122624, 122633, 1>>,
      <<122635, 122654, 1>>, <<125184, 125251, 1>>, <<127280, 127305, 1>>,
      <<127312, 127337, 1>>, <<127344, 127369, 1>> }

\* the case-ignorable code points: <<first, last, step>>
CaseIgnorableRanges ==
    { <<39, 39, 1>>, <<46, 46, 1>>, <<58, 58, 1>>, <<94, 96, 2>>,
      <<168, 168, 1>>, <<173, 175, 2>>, <<180, 180, 1>>, <<183, 184, 1>>,
      <<688, 879, 1>>, <<884, 885, 1>>, <<890, 890, 1>>, <<900, 901, 1>>,
      <<903, 903, 1>>, <<1155, 1161, 1>>, <<1369, 1369, 1>>,
      <<1375, 1375, 1>>, <<1425, 1469, 1>>, <<1471, 1473, 2>>,
      <<1474, 1476, 2>>, <<1477, 1479, 2>>, <<1524, 1524, 1>>,
      <<1536, 1541, 1>>, <<1552, 1562, 1>>, <<1564, 1564, 1>>,
      <<1600, 1600, 1>>, <<1611, 1631, 1>>, <<1648, 1648, 1>>,
      <<1750, 1757, 1>>, <<1759, 1768, 1>>, <<1770, 1773, 1>>,
      <<1807, 1809, 2>>, <<1840, 1866, 1>>, <<1958, 1968, 1>>,
      <<2027, 2037, 1>>, <<2042, 2042, 1>>, <<2045, 2045, 1>>,
      <<2070, 2093, 1>>, <<2137, 2139, 1>>, <<2184, 2184, 1>>,
      <<2192, 2193, 1>>, <<2200, 2207, 1>>, <<2249, 2306, 1>>,
      <<2362, 2364, 2>>, <<2369, 2376, 1>>, <<2381, 2381, 1>>,
      <<2385, 2391, 1>>, <<2402, 2403, 1>>, <<2417, 2417, 1>>,
      <<2433, 2433, 1>>, <<2492, 2492, 1>>, <<2497, 2500, 1>>,
      <<2509, 2509, 1>>, <<2530, 2531, 1>>, <<2558, 2558, 1>>,
      <<2561, 2562, 1>>, <<2620, 2620, 1>>, <<2625, 2626, 1>>,
      <<2631, 2632, 1>>, <<2635, 2637, 1>>, <<2641, 2641, 1>>,
      <<2672, 2673, 1>>, <<2677, 2677, 1>>, <<2689, 2690, 1>>,
      <<2748, 2748, 1>>, <<2753, 2757, 1>>, <<2759, 2760, 1>>,
      <<2765, 2765, 1>>, <<2786, 2787, 1>>, <<2810, 2815, 1>>,
      <<2817, 2817, 1>>, <<2876, 2876, 1>>, <<2879, 2881, 2>>,
      <<2882, 2884, 1>>, <<2893, 2893, 1>>, <<2901, 2902, 1>>,
      <<2914, 2915, 1>>, <<2946, 2946, 1>>, <<3008, 3008, 1>>,
      <<3021, 3021, 1>>, <<3072, 3072, 1>>, <<3076, 3076, 1>>,
      <<3132, 3134, 2>>, <<3135, 3136, 1>>, <<3142, 3144, 1>>,
      <<3146, 3149, 1>>, <<3157, 3158, 1>>, <<3170, 3171, 1>>,
      <<3201, 3201, 1>>, <<3260, 3260, 1>>, <<3263, 3263, 1>>,
      <<3270, 3270, 1>>, <<3276, 3277, 1>>, <<3298, 3299, 1>>,
      <<3328, 3329, 1>>, <<3387, 3388, 1>>, <<3393, 3396, 1>>,
      <<3405, 3405, 1>>, <<3426, 3427, 1>>, <<3457, 3457, 1>>,
      <<3530, 3530, 1>>, <<3538, 3540, 1>>, <<3542, 3542, 1>>,
      <<3633, 3633, 1>>, <<3636, 3642, 1>>, <<3654, 3662, 1>>,
      <<3761, 3761, 1>>, <<3764, 3772, 1>>, <<3782, 3784, 2>>,
      <<3785, 3789, 1>>, <<3864, 3865, 1>>, <<3893, 3897, 2>>,
      <<3953, 3966, 1>>, <<3968, 3972, 1>>, <<3974, 3975, 1>>,
      <<3981, 3991, 1>>, <<3993, 4028, 1>>, <<4038, 4038, 1>>,
      <<4141, 4144, 1>>, <<4146, 4151, 1>>, <<4153, 4154, 1>>,
      <<4157, 4158, 1>>, <<4184, 4185, 1>>, <<4190, 4192, 1>>,
      <<4209, 4212, 1>>, <<4226, 4226, 1>>, <<4229, 4230, 1>>,
      <<4237, 4237, 1>>, <<4253, 4253, 1>>, <<4348, 4348, 1>>,
      <<4957, 4959, 1>>, <<5906, 5908, 1>>, <<5938, 5939, 1>>,
      <<5970, 5971, 1>>, <<6002, 6003, 1>>, <<6068, 6069, 1>>,
      <<6071, 6077, 1>>, <<6086, 6086, 1>>, <<6089, 6099, 1>>,
      <<6103, 6103, 1>>, <<6109, 6109, 1>>, <<6155, 6159, 1>>,
      <<6211, 6211, 1>>, <<6277, 6278, 1>>, <<6313, 6313, 1>>,
      <<6432, 6434, 1>>, <<6439, 6440, 1>>, <<6450, 6450, 1>>,
      <<6457, 6459, 1>>, <<6679, 6680, 1>>, <<6683, 6683, 1>>,
      <<6742, 6744, 2>>, <<6745, 6750, 1>>, <<6752, 6754, 2>>,
      <<6757, 6764, 1>>, <<6771, 6780, 1>>, <<6783, 6783, 1>>,
      <<6823, 6823, 1>>, <<6832, 6862, 1>>, <<6912, 6915, 1>>,
      <<6964, 6966, 2>>, <<6967, 6970, 1>>, <<6972, 6972, 1>>,
      <<6978, 6978, 1>>, <<7019, 7027, 1>>, <<7040, 7041, 1>>,
      <<7074, 7077, 1>>, <<7080, 7081, 1>>, <<7083, 7085, 1>>,
      <<7142, 7144, 2>>, <<7145, 7145, 1>>, <<7149, 7151, 2>>,
      <<7152, 7153, 1>>, <<7212, 7219, 1>>, <<7222, 7223, 1>>,
      <<7288, 7293, 1>>, <<7376, 7378, 1>>, <<7380, 7392, 1>>,
      <<7394, 7400, 1>>, <<7405, 7405, 1>>, <<7412, 7412, 1>>,
      <<7416, 7417, 1>>, <<7468, 7530, 1>>, <<7544, 7544, 1>>,
      <<7579, 7679, 1>>, <<8125, 8127, 2>>, <<8128, 8129, 1>>,
      <<8141, 8143, 1>>, <<8157, 8159, 1>>, <<8173, 8175, 1>>,
      <<8189, 8190, 1>>, <<8203, 8207, 1>>, <<8216, 8217, 1>>,
      <<8228, 8228, 1>>, <<8231, 8231, 1>>, <<8234, 8238, 1>>,
      <<8288, 8292, 1>>, <<8294, 8303, 1>>, <<8305, 8305, 1>>,
      <<8319, 8319, 1>>, <<8336, 8348, 1>>, <<8400, 8432, 1>>,
      <<11388, 11389, 1>>, <<11503, 11505, 1>>, <<11631, 11631, 1>>,
      <<11647, 11647, 1>>, <<11744, 11775, 1>>, <<11823, 11823, 1>>,
      <<12293, 12293, 1>>, <<12330, 12333, 1>>, <<12337, 12341, 1>>,
      <<12347, 12347, 1>>, <<12441, 12446, 1>>, <<12540, 12542, 1>>,
      <<40981, 40981, 1>>, <<42232, 42237, 1>>, <<42508, 42508, 1>>,
      <<42607, 42610, 1>>, <<42612, 42621, 1>>, <<42623, 42623, 1>>,
      <<42652, 42655, 1>>, <<42736, 42737, 1>>, <<42752, 42785, 1>>,
      <<42864, 42864, 1>>, <<42888, 42890, 1>>, <<42994, 42996, 1>>,
      <<43000, 43001, 1>>, <<43010, 43010, 1>>, <<43014, 43014, 1>>,
      <<43019, 43019, 1>>, <<43045, 43046, 1>>, <<43052, 43052, 1>>,
      <<43204, 43205, 1>>, <<43232, 43249, 1>>, <<43263, 43263, 1>>,
      <<43302, 43309, 1>>, <<43335, 43345, 1>>, <<43392, 43394, 1>>,
      <<43443, 43443, 1>>, <<43446, 43449, 1>>, <<43452, 43453, 1>>,
      <<43471, 43471, 1>>, <<43493, 43494, 1>>, <<43561, 43566, 1>>,
      <<43569, 43570, 1>>, <<43573, 43574, 1>>, <<43587, 43587, 1>>,
      <<43596, 43596, 1>>, <<43632, 43632, 1>>, <<43644, 43644, 1>>,
      <<43696, 43698, 2>>, <<43699, 43700, 1>>, <<43703, 43704, 1>>,
      <<43710, 43711, 1>>, <<43713, 43713, 1>>, <<43741, 43741, 1>>,
      <<43756, 43757, 1>>, <<43763, 43764, 1>>, <<43766, 43766, 1>>,
      <<43867, 43871, 1>>, <<43881, 43883, 1>>, <<44005, 44005, 1>>,
      <<44008, 44008, 1>>, <<44013, 44013, 1>>, <<64286, 64286, 1>>,
      <<64434, 64450, 1>>, <<65024, 65039, 1>>, <<65043, 65043, 1>>,
      <<65056, 65071, 1>>, <<65106, 65106, 1>>, <<65109, 65109, 1>>,
      <<65279, 65279, 1>>, <<65287, 65287, 1>>, <<65294, 65294, 1>>,
      <<65306, 65306, 1>>, <<65342, 65344, 2>>, <<65392, 65392, 1>>,
      <<65438, 65439, 1>>, <<65507, 65507, 1>>, <<65529, 65531, 1>>,
      <<66045, 66045, 1>>, <<66272, 66272, 1>>, <<66422, 66426, 1>>,
      <<67456, 67461, 1>>, <<67463, 67504, 1>>, <<67506, 67514, 1>>,
      <<68097, 68099, 1>>, <<68101, 68102, 1>>, <<68108, 68111, 1>>,
      <<68152, 68154, 1>>, <<68159, 68159, 1>>, <<68325, 68326, 1>>,
      <<68900, 68903, 1>>, <<69291, 69292, 1>>, <<69446, 69456, 1>>,
      <<69506, 69509, 1>>, <<69633, 69633, 1>>, <<69688, 69702, 1>>,
      <<69744, 69744, 1>>, <<69747, 69748, 1>>, <<69759, 69761, 1>>,
      <<69811, 69814, 1>>, <<69817, 69818, 1>>, <<69821, 69821, 1>>,
      <<69826, 69826, 1>>, <<69837, 69837, 1>>, <<69888, 69890, 1>>,
      <<69927, 69931, 1>>, <<69933, 69940, 1>>, <<70003, 70003, 1>>,
      <<70016, 70017, 1>>, <<70070, 70078, 1>>, <<70089, 70092, 1>>,
      <<70095, 70095, 1>>, <<70191, 70193, 1>>, <<70196, 70198, 2>>,
      <<70199, 70199, 1>>, <<70206, 70206, 1>>, <<70367, 70367, 1>>,
      <<70371, 70378, 1>>, <<70400, 70401, 1>>, <<70459, 70460, 1>>,
      <<70464, 70464, 1>>, <<70502, 70508, 1>>, <<70512, 70516, 1>>,
      <<70712, 70719, 1>>, <<70722, 70724, 1>>, <<70726, 70726, 1>>,
      <<70750, 70750, 1>>, <<70835, 70840, 1>>, <<70842, 70842, 1>>,
      <<70847, 70848, 1>>, <<70850, 70851, 1>>, <<71090, 71093, 1>>,
      <<71100, 71101, 1>>, <<71103, 71104, 1>>, <<71132, 71133, 1>>,
      <<71219, 71226, 1>>, <<71229, 71231, 2>>, <<71232, 71232, 1>>,
      <<71339, 71341, 2>>, <<71344, 71349, 1>>, <<71351, 71351, 1>>,
      <<71453, 71455, 1>>, <<71458, 71461, 1>>, <<71463, 71467, 1>>,
      <<71727, 71735, 1>>, <<71737, 71738, 1>>, <<71995, 71996, 1>>,
      <<71998, 71998, 1>>, <<72003, 72003, 1>>, <<72148, 72151, 1>>,
      <<72154, 72155, 1>>, <<72160, 72160, 1>>, <<72193, 72202, 1>>,
      <<72243, 72248, 1>>, <<72251, 72254, 1>>, <<72263, 72263, 1>>,
      <<72273, 72278, 1>>, <<72281, 72283, 1>>, <<72330, 72342, 1>>,
      <<72344, 72345, 1>>, <<72752, 72758, 1>>, <<72760, 72765, 1>>,
      <<72767, 72767, 1>>, <<72850, 72871, 1>>, <<72874, 72880, 1>>,
      <<72882, 72883, 1>>, <<72885, 72886, 1>>, <<73009, 73014, 1>>,
      <<73018, 73020, 2>>, <<73021, 73023, 2>>, <<73024, 73029, 1>>,
      <<73031, 73031, 1>>, <<73104, 73105, 1>>, <<73109, 73111, 2>>,
      <<73459, 73460, 1>>, <<78896, 78904, 1>>, <<92912, 92916, 1>>,
      <<92976, 92982, 1>>, <<92992, 92995, 1>>, <<94031, 94031, 1>>,
      <<94095, 94111, 1>>, <<94176, 94177, 1>>, <<94179, 94180, 1>>,
      <<110576, 110579, 1>>, <<110581, 110587, 1>>, <<110589, 110590, 1>>,
      <<113821, 113822, 1>>, <<113824, 113827, 1>>, <<118528, 118573, 1>>,
      <<118576, 118598, 1>>, <<119143, 119145, 1>>, <<119155, 119170, 1>>,
      <<119173, 119179, 1>>, <<119210, 119213, 1>>, <<119362, 119364, 1>>,
      <<121344, 121398, 1>>, <<121403, 121452, 1>>, <<121461, 121461, 1>>,
      <<121476, 121476, 1>>, <<121499, 121503, 1>>, <<121505, 121519, 1>>,
      <<122880, 122886, 1>>, <<122888, 122904, 1>>, <<122907, 122913, 1>>,
      <<122915, 122916, 1>>, <<122918, 122922, 1>>, <<123184, 123197, 1>>,
      <<123566, 123566, 1>>, <<123628, 123631, 1>>, <<125136, 125142, 1>>,
      <<125252, 125259, 1>>, <<127995, 127999, 1>>, <<917505, 917505, 1>>,
      <<917536, 917631, 1>>, <<917760, 917999, 1>> }

\* a capital sigma at position i ends a word: a cased letter before it, none
\* after it, case-ignorable characters skipped
final_sigma(s, i) ==
    LET before == { j \in 1..(i - 1) :
                      ~in_ranges(ord(s[j]), CaseIgnorableRanges) }
        after == { j \in (i + 1)..Len(s) :
                     ~in_ranges(ord(s[j]), CaseIgnorableRanges) }
    IN
    /\ before # {}
    /\ in_ranges(ord(s[CHOOSE j \in before : \A k \in before : k <= j]),
                 CasedRanges)
    /\ \/ after = {}
       \/ ~in_ranges(ord(s[CHOOSE j \in after : \A k \in after : j <= k]),
                     CasedRanges)

\* the lower case of the character at position i of s
lower_at(s, i) ==
    LET n == ord(s[i]) IN
    IF n = 931 THEN <<chr(IF final_sigma(s, i) THEN 962 ELSE 963)>>
    ELSE IF n = 304 THEN <<"i", chr(775)>>
    ELSE IF in_ranges(n, LowerRanges)
    THEN <<chr(n + (CHOOSE r \in LowerRanges :
                        n >= r[1] /\ n <= r[2] /\ (n - r[1]) % r[3] = 0)[4])>>
    ELSE <<s[i]>>

\* str.lower()
RECURSIVE lower_from(_, _)
lower_from(s, i) ==
    IF i > Len(s) THEN <<>> ELSE lower_at(s, i) \o lower_from(s, i + 1)
lower(s) == lower_from(s, 1)

\* s.find(c, start), 1-based; 0 when absent
find_from(s, c, start) ==
    IF \E k \in start..Len(s) : s[k] = c
    THEN CHOOSE k \in start..Len(s) :
             s[k] = c /\ \A j \in start..(k - 1) : s[j] # c
    ELSE 0

\* ntpath.splitdrive(p): <<drive or UNC share, rest>>
splitdrive(p) ==
    LET normp == [k \in 1..Len(p) |-> IF p[k] = "/" THEN "\\" ELSE p[k]]
        start == IF /\ Len(p) >= 8
                    /\ SubSeq(normp, 1, 4) = <<"\\", "\\", "?", "\\">>
                    /\ normp[5] \in {"U", "u"}
                    /\ normp[6] \in {"N", "n"}
                    /\ normp[7] \in {"C", "c"}
                    /\ normp[8] = "\\"
                 THEN 9 ELSE 3
        index == find_from(normp, "\\", start)
        index2 == find_from(normp, "\\", index + 1)
    IN
    IF Len(p) >= 2 /\ SubSeq(normp, 1, 2) = <<"\\", "\\">>
    THEN IF index = 0 \/ index2 = 0
         THEN <<p, <<>>>>
         ELSE <<SubSeq(p, 1, index2 - 1), SubSeq(p, index2, Len(p))>>
    ELSE IF Len(p) >= 2 /\ normp[2] = ":"
    THEN <<SubSeq(p, 1, 2), SubSeq(p, 3, Len(p))>>
    ELSE <<<<>>, p>>

\* ntpath.join(a, b)
ntpath_join(a, b) ==
    LET seps == Seps("Windows")
        rd == splitdrive(a)[1]
        rp == splitdrive(a)[2]
        pd == splitdrive(b)[1]
        pp == splitdrive(b)[2]
        rooted == pp # <<>> /\ pp[1] \in seps
        other == pd # <<>> /\ pd # rd /\ lower(pd) # lower(rd)
        drive == IF rooted
                 THEN (IF pd # <<>> \/ rd = <<>> THEN pd ELSE rd)
                 ELSE IF pd # <<>> /\ pd # rd THEN pd ELSE rd
        path == IF rooted \/ other THEN pp
                ELSE (IF rp # <<>> /\ rp[Len(rp)] \notin seps
                      THEN rp \o <<"\\">> ELSE rp) \o pp
    IN
    IF /\ path # <<>> /\ path[1] \notin seps
       /\ drive # <<>> /\ drive[Len(drive)] # ":"
    THEN drive \o <<"\\">> \o path
    ELSE drive \o path

\* posixpath.join(a, b)
posixpath_join(a, b) ==
    IF b # <<>> /\ Head(b) = "/" THEN b
    ELSE IF a = <<>> \/ a[Len(a)] = "/" THEN a \o b
    ELSE a \o <<"/">> \o b

\* os.path.join(a, b)
path_join(plat, a, b) ==
    IF plat = "Windows" THEN ntpath_join(a, b) ELSE posixpath_join(a, b)

\* the path with "/" for every separator of the platform
canon(plat, path) ==
    [k \in 1..Len(path) |-> IF path[k] \in Seps(plat) THEN "/" ELSE path[k]]

\* the longest file name and the longest path the system accepts, in bytes
NameMax == 255
PathMax == 4096

\* the length of a str in the bytes of the filesystem encoding, UTF-8
RECURSIVE byte_len(_)
byte_len(s) ==
    IF s = <<>> THEN 0
    ELSE (IF Len(Head(s)) = 1 \/ ord(Head(s)) < 128 THEN 1
          ELSE IF ord(Head(s)) < 2048 THEN 2
          ELSE IF ord(Head(s)) < 65536 THEN 3 ELSE 4) + byte_len(Tail(s))

DotDot == <<".", ".">>

\* the components lead into the working directory or to it
under_cwd(comps) ==
    Len(comps) >= Len(Cwd) /\ SubSeq(comps, 1, Len(Cwd)) = Cwd

\* the name under which the disk knows the entry the components lead to from
\* the root
entry_name(comps) ==
    IF comps = Cwd THEN <<".">>
    ELSE IF under_cwd(comps)
    THEN join(<<"/">>, SubSeq(comps, Len(Cwd) + 1, Len(comps)))
    ELSE <<"/">> \o join(<<"/">>, comps)

\* the components lead to a directory: the root, the working directory, one
\* between the two, or a directory on disk
is_dir_entry(fs, comps) ==
    \/ Len(comps) <= Len(Cwd) /\ comps = SubSeq(Cwd, 1, Len(comps))
    \/ entry_name(comps) \in fs.dirs

\* the walk of the system along the components left to read: each one is
\* looked up in a directory, "" and "." stay, ".." goes up
RECURSIVE walk(_, _, _)
walk(fs, comps, left) ==
    IF left = <<>> THEN [ok |-> TRUE, comps |-> comps]
    ELSE IF ~is_dir_entry(fs, comps) THEN [ok |-> FALSE, comps |-> comps]
    ELSE IF Head(left) \in {<<>>, <<".">>} THEN walk(fs, comps, Tail(left))
    ELSE IF Head(left) = DotDot
    THEN walk(fs,
              IF comps = <<>> THEN comps
              ELSE SubSeq(comps, 1, Len(comps) - 1),
              Tail(left))
    ELSE IF byte_len(Head(left)) > NameMax
    THEN [ok |-> FALSE, comps |-> comps]
    ELSE walk(fs, Append(comps, Head(left)), Tail(left))

\* the entry a path leads to, ok when the system can follow the path: a
\* path that is empty, holds a NUL or is too long leads nowhere
resolve(plat, fs, path) ==
    LET p == canon(plat, path)
        rooted == p # <<>> /\ Head(p) = "/"
    IN
    IF p = <<>> \/ contains(p, "U+0000") \/ byte_len(p) >= PathMax
    THEN [ok |-> FALSE, comps |-> <<>>]
    ELSE walk(fs, IF rooted THEN <<>> ELSE Cwd,
              split_on(IF rooted THEN Tail(p) ELSE p, "/"))

\* the name of the entry a path that resolves leads to
resolved_name(plat, fs, path) == entry_name(resolve(plat, fs, path).comps)

\* os.path.isfile(path)
isfile(plat, fs, path) ==
    resolve(plat, fs, path).ok /\ resolved_name(plat, fs, path) \in fs.files

\* os.path.isdir(path) for a str path
isdir(plat, fs, path) ==
    /\ resolve(plat, fs, path).ok
    /\ is_dir_entry(fs, resolve(plat, fs, path).comps)

\* a makedirs that creates nothing
makedirs_nothing(plat, fs, path) == fs.dirs

\* os.makedirs(path, exist_ok=True) from character j on: a mkdir at the end
\* of every component, the directories made before a failure stay
RECURSIVE make_parts(_, _, _, _)
make_parts(plat, fs, path, j) ==
    LET p == canon(plat, path)
        part == SubSeq(path, 1, j)
        last == \A k \in (j + 1)..Len(p) : p[k] = "/"
    IN
    IF j > Len(path) THEN [ok |-> TRUE, dirs |-> fs.dirs]
    ELSE IF p[j] = "/" \/ (j < Len(p) /\ p[j + 1] # "/")
    THEN make_parts(plat, fs, path, j + 1)
    ELSE IF \/ ~resolve(plat, fs, part).ok
            \/ resolved_name(plat, fs, part) \in fs.files
            \/ last /\ byte_len(path) >= PathMax
    THEN [ok |-> FALSE, dirs |-> fs.dirs]
    ELSE make_parts(plat,
                    [fs EXCEPT !.dirs =
                        IF isdir(plat, fs, part) THEN @
                        ELSE @ \cup {resolved_name(plat, fs, part)}],
                    path, j + 1)

\* os.makedirs(path, exist_ok=True) raises: the path is empty or too long, or
\* a part of it is a file or cannot be reached
makedirs_fails(plat, fs, path) ==
    path = <<>> \/ ~make_parts(plat, fs, path, 1).ok

\* the directories on disk after os.makedirs(path, exist_ok=True)
makedirs(plat, fs, path) == make_parts(plat, fs, path, 1).dirs

\* the file a compiler told to write `path` can create: none when the path
\* leads to a directory or through a missing one
output_files(plat, fs, path) ==
    IF resolve(plat, fs, path).ok /\ ~isdir(plat, fs, path)
    THEN {resolved_name(plat, fs, path)}
    ELSE {}

-----------------------------------------------------------------------------
(* load_bldfile *)

EmptyDict == [k \in {} |-> None]

\* a loop in which `prog` always has a value (say, initialised to a default)
unbound_prog_ignored(st) == FALSE

\* reading the local `prog` before any prog= line bound it raises
\* UnboundLocalError
unbound_prog(st) == st.prog = Unbound

\* one iteration of `for line in bldfile` on the locals st
load_step(st, line) ==
    LET l == strip(line) IN
    IF startswith(l, "#") \/ l = <<>> THEN st
    ELSE IF ~contains(l, "=") THEN st
    ELSE
        LET id == split_first(l, "=")[1]
            value == split_first(l, "=")[2]
        IN
        IF id = K_prog
        THEN [st EXCEPT !.progdic = insert(st.progdic, value), !.prog = value]
        ELSE IF id \notin {K_src, K_bin, K_file, K_option} THEN st
        ELSE IF unbound_prog(st) THEN [st EXCEPT !.raised = TRUE]
        ELSE IF id = K_src
        THEN [st EXCEPT !.srcdic = put(st.srcdic, st.prog, value)]
        ELSE IF id = K_bin
        THEN [st EXCEPT !.bindic = put(st.bindic, st.prog, value)]
        ELSE IF id = K_file
        THEN [st EXCEPT !.filedic = put(st.filedic, st.prog, value)]
        ELSE [st EXCEPT !.optdic = put(st.optdic, st.prog, value)]

\* the locals of load_bldfile as the state holds them
LoadState ==
    [progdic |-> progdic, srcdic |-> srcdic, bindic |-> bindic,
     filedic |-> filedic, optdic |-> optdic, prog |-> prog, raised |-> FALSE]

\* what main and the collaborators hold while load_bldfile runs
RunIdle ==
    /\ system_platform = "unknown"
    /\ compiler = None
    /\ idx = 0
    /\ source_files = <<>>
    /\ options = None
    /\ dirs = InitDirs
    /\ commands = <<>>
    /\ trace = <<>>

Init ==
    /\ pc = "open"
    /\ progdic = <<>>
    /\ srcdic = EmptyDict
    /\ bindic = EmptyDict
    /\ filedic = EmptyDict
    /\ optdic = EmptyDict
    /\ prog = Unbound
    /\ RunIdle
    /\ exitcode = Running
    /\ error = "none"
    /\ log = <<>>

\* sys.exit(1) out of load_bldfile: its dictionaries are never returned
LoadExit(err) ==
    /\ pc' = "exit"
    /\ exitcode' = 1
    /\ error' = err
    /\ progdic' = <<>>
    /\ srcdic' = EmptyDict
    /\ bindic' = EmptyDict
    /\ filedic' = EmptyDict
    /\ optdic' = EmptyDict
    /\ prog' = Unbound

RunUnchanged ==
    UNCHANGED <<system_platform, compiler, idx, source_files, options, dirs,
                commands, trace>>

\* open(bldfilename, "r"): the file opens, is absent, or cannot be opened
OpenBldfile ==
    /\ pc = "open"
    /\ \/ /\ pc' = "load"
          /\ UNCHANGED <<progdic, srcdic, bindic, filedic, optdic, prog,
                         exitcode, error>>
       \/ LoadExit("ConfigNotFound")
       \/ LoadExit("ConfigReadError")
    /\ RunUnchanged
    /\ UNCHANGED log

\* the loop body on one line; keep says whether the history records the line
load_line(line, keep) ==
    LET st == load_step(LoadState, line) IN
    /\ IF st.raised
       THEN LoadExit("ConfigReadError")
       ELSE /\ progdic' = st.progdic
            /\ srcdic' = st.srcdic
            /\ bindic' = st.bindic
            /\ filedic' = st.filedic
            /\ optdic' = st.optdic
            /\ prog' = st.prog
            /\ UNCHANGED <<pc, exitcode, error>>
    /\ log' = IF keep THEN Append(log, line) ELSE log
    /\ RunUnchanged

\* for line in bldfile: the next line of the file
LoadLine ==
    /\ pc = "load"
    /\ \E line \in Lines : load_line(line, FALSE)

\* an I/O or decoding failure while iterating the file
LoadReadError ==
    /\ pc = "load"
    /\ LoadExit("ConfigReadError")
    /\ RunUnchanged
    /\ UNCHANGED log

\* end of file: load_bldfile returns the five dictionaries to main
LoadReturn ==
    /\ pc = "load"
    /\ pc' = "detect"
    /\ prog' = Unbound
    /\ UNCHANGED <<progdic, srcdic, bindic, filedic, optdic, exitcode, error>>
    /\ RunUnchanged
    /\ UNCHANGED log

-----------------------------------------------------------------------------
(* detect_compiler, get_binary_name and the validators *)

\* detect_compiler(): the compiler, or None where it raises EnvironmentError;
\* gpp and cl are the answers of shutil.which("g++") and shutil.which("cl")
detect_compiler(plat, gpp, cl) ==
    IF plat \in {"Linux", "Darwin"}
    THEN IF truthy(gpp) THEN GppName ELSE None
    ELSE IF plat = "Windows"
    THEN IF truthy(gpp) THEN gpp ELSE IF truthy(cl) THEN cl ELSE None
    ELSE None

\* get_binary_name(prog_name)
get_binary_name(plat, prog_name) ==
    IF plat = "Windows" THEN prog_name \o <<".", "e", "x", "e">> ELSE prog_name

\* the comprehension without its isfile filter
RECURSIVE existing_sources_unfiltered(_, _, _, _)
existing_sources_unfiltered(plat, fs, srcdir, names) ==
    IF names = <<>> THEN <<>>
    ELSE <<path_join(plat, srcdir, Head(names))>>
             \o existing_sources_unfiltered(plat, fs, srcdir, Tail(names))

\* [os.path.join(srcdir, f) for f in names
\*      if os.path.isfile(os.path.join(srcdir, f))]
RECURSIVE existing_sources(_, _, _, _)
existing_sources(plat, fs, srcdir, names) ==
    IF names = <<>> THEN <<>>
    ELSE (IF isfile(plat, fs, path_join(plat, srcdir, Head(names)))
          THEN <<path_join(plat, srcdir, Head(names))>>
          ELSE <<>>)
         \o existing_sources(plat, fs, srcdir, Tail(names))

\* validate_sources without its os.path.isdir check
validate_sources_no_dir_check(plat, fs, srcdir, files) ==
    IF srcdir = None THEN [err |-> "TypeError", files |-> <<>>]
    ELSE IF existing_sources(plat, fs, srcdir, split_ws(files)) = <<>>
    THEN [err |-> "NoValidSourceFiles", files |-> <<>>]
    ELSE [err |-> "none",
          files |-> existing_sources(plat, fs, srcdir, split_ws(files))]

\* validate_sources(srcdir, files): the list it returns, or the failure that
\* ends the run (srcdir None makes os.path.isdir raise TypeError)
validate_sources(plat, fs, srcdir, files) ==
    IF srcdir = None THEN [err |-> "TypeError", files |-> <<>>]
    ELSE IF ~isdir(plat, fs, srcdir)
    THEN [err |-> "SourceDirNotFound", files |-> <<>>]
    ELSE IF existing_sources(plat, fs, srcdir, split_ws(files)) = <<>>
    THEN [err |-> "NoValidSourceFiles", files |-> <<>>]
    ELSE [err |-> "none",
          files |-> existing_sources(plat, fs, srcdir, split_ws(files))]

\* validate_options(options) for a str
validate_options(option) == join(<<" ">>, split_on(option, ";"))

\* a file-list check that tests for the empty string alone
missing_files_empty_only(files) == files = <<>>

\* if not files: the file list is absent or empty
missing_files(files) == ~truthy(files)

\* subprocess.run without check=True: no status raises
check_ignored(status) == FALSE

\* subprocess.run(..., check=True) raises CalledProcessError on this status
check_failed(status) == status # 0

\* a command line whose option tokens are separate arguments
compile_command_split(comp, sources, output_path, opts) ==
    <<comp>> \o sources \o <<<<"-", "g">>, <<"-", "o">>, output_path>>
        \o split_on(opts, " ")

\* compile_command of compile_program
compile_command(comp, sources, output_path, opts) ==
    <<comp>> \o sources \o <<<<"-", "g">>, <<"-", "o">>, output_path, opts>>

-----------------------------------------------------------------------------
(* main *)

LoadUnchanged ==
    UNCHANGED <<progdic, srcdic, bindic, filedic, optdic, prog, log>>

\* the process ends with this status
Exit(code, err) ==
    /\ pc' = "exit"
    /\ exitcode' = code
    /\ error' = err

\* the program of the current loop iteration
cur == progdic[idx]

\* compiler = detect_compiler()
DetectCompiler ==
    /\ pc = "detect"
    /\ \E plat \in Platforms, gpp \in {None, WhichGpp}, cl \in {None, WhichCl} :
          /\ system_platform' = plat
          /\ IF detect_compiler(plat, gpp, cl) = None
             THEN /\ Exit(1, "NoCompilerFound")
                  /\ UNCHANGED <<compiler, idx>>
             ELSE /\ compiler' = detect_compiler(plat, gpp, cl)
                  /\ idx' = 1
                  /\ pc' = "loop"
                  /\ UNCHANGED <<exitcode, error>>
    /\ UNCHANGED <<source_files, options, dirs, commands, trace>>
    /\ LoadUnchanged

\* for prog in progdic: the next program and its file-list check, or the end
\* of the loop and of the process
MainLoop ==
    /\ pc = "loop"
    /\ IF idx > Len(progdic)
       THEN /\ Exit(0, "none")
            /\ UNCHANGED trace
       ELSE /\ trace' = Append(trace, <<"check_files", cur>>)
            /\ IF missing_files(get(filedic, cur))
               THEN Exit(1, "MissingFileList")
               ELSE /\ pc' = "prepare"
                    /\ UNCHANGED <<exitcode, error>>
    /\ UNCHANGED <<system_platform, compiler, idx, source_files, options,
                   dirs, commands>>
    /\ LoadUnchanged

\* prepare_directories(bindir): os.makedirs raises for what the path and the
\* disk are, or because the system refuses (permissions, a read-only or full
\* disk, a path nested deeper than the interpreter recurses)
PrepareDirectories ==
    /\ pc = "prepare"
    /\ trace' = Append(trace, <<"prepare_directories", cur>>)
    /\ IF ~truthy(get(bindic, cur))
       THEN /\ Exit(1, "MissingBinDir")
            /\ UNCHANGED dirs
       ELSE \/ /\ Exit(1, "BinDirCreateFailed")
               /\ UNCHANGED dirs
            \/ /\ dirs' = makedirs(system_platform, disk, get(bindic, cur))
               /\ IF makedirs_fails(system_platform, disk, get(bindic, cur))
                  THEN Exit(1, "BinDirCreateFailed")
                  ELSE /\ pc' = "validate"
                       /\ UNCHANGED <<exitcode, error>>
    /\ UNCHANGED <<system_platform, compiler, idx, source_files, options,
                   commands>>
    /\ LoadUnchanged

\* source_files = validate_sources(srcdir, files)
ValidateSources ==
    LET r == validate_sources(system_platform, disk, get(srcdic, cur),
                              get(filedic, cur))
    IN
    /\ pc = "validate"
    /\ trace' = Append(trace, <<"validate_sources", cur>>)
    /\ IF r.err # "none"
       THEN /\ Exit(1, r.err)
            /\ UNCHANGED source_files
       ELSE /\ source_files' = r.files
            /\ pc' = "options"
            /\ UNCHANGED <<exitcode, error>>
    /\ UNCHANGED <<system_platform, compiler, idx, options, dirs, commands>>
    /\ LoadUnchanged

\* output_path = os.path.join(bindir, outbin)
output_path ==
    path_join(system_platform, get(bindic, cur),
              get_binary_name(system_platform, cur))

\* options = validate_options(option): None has no split and raises
\* AttributeError
ValidateOptions ==
    /\ pc = "options"
    /\ trace' = Append(trace, <<"validate_options", cur>>)
    /\ IF get(optdic, cur) = None
       THEN /\ Exit(1, "AttributeError")
            /\ UNCHANGED options
       ELSE /\ options' = validate_options(get(optdic, cur))
            /\ pc' = "compile"
            /\ UNCHANGED <<exitcode, error>>
    /\ UNCHANGED <<system_platform, compiler, idx, source_files, dirs,
                   commands>>
    /\ LoadUnchanged

\* compile_program(compiler, source_files, output_path, options): the
\* compiler cannot be executed and subprocess.run raises OSError, which no
\* handler catches; or the child runs, writes its output file or not, and
\* exits zero, or non-zero and check=True raises CalledProcessError
CompileProgram ==
    /\ pc = "compile"
    /\ trace' = Append(trace, <<"compile_program", cur>>)
    /\ \/ /\ Exit(1, "OSError")
          /\ UNCHANGED <<commands, idx>>
       \/ \E status \in {0, 1},
             wrote \in {None} \cup
                       output_files(system_platform, disk, output_path) :
             /\ commands' =
                    Append(commands,
                           [argv |-> compile_command(compiler, source_files,
                                                     output_path, options),
                            status |-> status,
                            wrote |-> wrote])
             /\ IF check_failed(status)
                THEN /\ Exit(1, "CompileError")
                     /\ UNCHANGED idx
                ELSE /\ idx' = idx + 1
                     /\ pc' = "loop"
                     /\ UNCHANGED <<exitcode, error>>
    /\ UNCHANGED <<system_platform, compiler, source_files, options, dirs>>
    /\ LoadUnchanged

Next ==
    \/ OpenBldfile
    \/ LoadLine
    \/ LoadReadError
    \/ LoadReturn
    \/ DetectCompiler
    \/ MainLoop
    \/ PrepareDirectories
    \/ ValidateSources
    \/ ValidateOptions
    \/ CompileProgram

Spec == Init /\ [][Next]_vars

-----------------------------------------------------------------------------
(* The run after load_bldfile returned, its dictionaries drawn from bounded *)
(* sets of values.                                                          *)

MaxFileLen == 5
MaxOptLen == 3

\* every str over the alphabet of at most n characters
Strings(alphabet, n) == UNION { [1..k -> alphabet] : k \in 0..n }

\* a value load_bldfile can store: a line holds no line end but its last
\* character, and the stripped line ends with no whitespace
Storable(value) ==
    /\ \A k \in 1..Len(value) : value[k] \notin {"\n", "\r"}
    /\ value = <<>> \/ value[Len(value)] \notin Whitespace

FileValues == { v \in Strings({"x", "z", " "}, MaxFileLen) : Storable(v) }
OptionValues == { v \in Strings({"W", ";", " "}, MaxOptLen) : Storable(v) }

OneDict(key, value) == [k \in {key} |-> value]

InitRun ==
    /\ pc = "detect"
    /\ \E second \in BOOLEAN, srcdir \in {<<".", ".", "/", "c", "/", "s">>, <<"m">>},
          files \in FileValues \cup {<<"x">>},
          option \in OptionValues \cup {<<"W", ";", "O">>} :
          /\ files = <<"x">> \/ option = <<"W", ";", "O">>
          /\ progdic = IF second THEN <<<<"a">>, <<"b">>>> ELSE <<<<"a">>>>
          /\ srcdic = IF second
                      THEN put(OneDict(<<"a">>, srcdir), <<"b">>, <<"s">>)
                      ELSE OneDict(<<"a">>, srcdir)
          /\ bindic = IF second
                      THEN put(OneDict(<<"a">>, <<"o">>), <<"b">>, <<"o">>)
                      ELSE OneDict(<<"a">>, <<"o">>)
          /\ filedic = IF second
                       THEN put(OneDict(<<"a">>, files), <<"b">>,
                                <<"y", "\f", "x">>)
                       ELSE OneDict(<<"a">>, files)
          /\ optdic = IF second
                      THEN put(OneDict(<<"a">>, option), <<"b">>, <<"O">>)
                      ELSE OneDict(<<"a">>, option)
    /\ prog = Unbound
    /\ RunIdle
    /\ exitcode = Running
    /\ error = "none"
    /\ log = <<>>

NextRun ==
    \/ DetectCompiler
    \/ MainLoop
    \/ PrepareDirectories
    \/ ValidateSources
    \/ ValidateOptions
    \/ CompileProgram

SpecRun == InitRun /\ [][NextRun]_vars

-----------------------------------------------------------------------------
(* load_bldfile with the lines it reads recorded.                           *)

MaxLines == 4

ParseLines ==
    { nl(kv(K_prog, <<"a">>)), nl(kv(K_prog, <<"b">>)),
      nl(kv(K_src, <<"s">>)), nl(kv(K_src, <<"m">>)),
      <<"\f">> \o kv(K_bin, <<"o">>) \o <<"U+00A0", "\n">>,
      nl(kv(K_bin, <<"m">>)),
      nl(kv(K_file, <<"x">>)), nl(kv(K_file, <<"z">>)),
      nl(kv(K_option, <<"W", "=", "O">>)), nl(kv(K_option, <<"O">>)),
      nl(<<" ", "#", "c">>), nl(<<>>), nl(kv(<<"k">>, <<"v">>)),
      nl(K_prog) }

\* for line in bldfile, the line appended to the history
LoadLineLogged ==
    /\ pc = "load"
    /\ Len(log) < MaxLines
    /\ \E line \in ParseLines : load_line(line, TRUE)

NextParse ==
    \/ OpenBldfile
    \/ LoadLineLogged
    \/ LoadReadError
    \/ LoadReturn

SpecParse == Init /\ [][NextParse]_vars

-----------------------------------------------------------------------------
(* The whole run with the prog= lines it reads recorded.                    *)

MaxProgLines == 4

OrderLines ==
    { nl(kv(K_prog, <<"a">>)), nl(kv(K_prog, <<"b">>)),
      nl(kv(K_src, <<"s">>)), nl(kv(K_bin, <<"o">>)),
      nl(kv(K_file, <<"x">>)), nl(kv(K_option, <<"O">>)) }

\* the line declares a program: the loop body reaches `id == 'prog'` and
\* finds it true
IsProgLine(line) ==
    LET l == strip(line) IN
    /\ ~startswith(l, "#")
    /\ l # <<>>
    /\ contains(l, "=")
    /\ split_first(l, "=")[1] = K_prog

\* for line in bldfile, a prog= line appended to the history
LoadLineOrder ==
    /\ pc = "load"
    /\ \E line \in OrderLines :
          /\ IsProgLine(line) => Len(log) < MaxProgLines
          /\ load_line(line, IsProgLine(line))

NextOrder ==
    \/ OpenBldfile
    \/ LoadLineOrder
    \/ LoadReadError
    \/ LoadReturn
    \/ DetectCompiler
    \/ MainLoop
    \/ PrepareDirectories
    \/ ValidateSources
    \/ ValidateOptions
    \/ CompileProgram

SpecOrder == Init /\ [][NextOrder]_vars

-----------------------------------------------------------------------------
(* What the properties speak of *)

\* main holds the dictionaries load_bldfile returned
Started == pc \notin {"open", "load"}

\* main has performed this step for this program
Did(step, p) == \E e \in 1..Len(trace) : trace[e] = <<step, p>>

\* the steps main has performed for program p, in order
StepsOf(p) ==
    LET ev == SelectSeq(trace, LAMBDA e : e[2] = p)
    IN [k \in 1..Len(ev) |-> ev[k][1]]

\* the programs the compiler was invoked for, in order
Compiled ==
    LET ev == SelectSeq(trace, LAMBDA e : e[1] = "compile_program")
    IN [k \in 1..Len(ev) |-> ev[k][2]]

\* no step at all was performed for a program declared after position k
NothingAfter(k) ==
    \A j \in (k + 1)..Len(progdic), e \in 1..Len(trace) :
        trace[e][2] # progdic[j]

\* every program declared before position k was compiled, with status 0
AllBuiltBefore(k) ==
    /\ Len(commands) = k - 1
    /\ \A c \in 1..Len(commands) : commands[c].status = 0
    /\ Compiled = SubSeq(progdic, 1, k - 1)

IsPrefix(s, t) == Len(s) <= Len(t) /\ SubSeq(t, 1, Len(s)) = s

StepOrder ==
    <<"check_files", "prepare_directories", "validate_sources",
      "validate_options", "compile_program">>

\* the i-th smallest element of a set of numbers
Nth(S, i) == CHOOSE k \in S : Cardinality({j \in S : j <= k}) = i

\* the maximal whitespace-free runs of s, by their positions
WordStarts(s) ==
    { k \in 1..Len(s) :
        s[k] \notin Whitespace /\ (k = 1 \/ s[k - 1] \in Whitespace) }
WordEnd(s, k) ==
    CHOOSE e \in k..Len(s) :
        /\ \A j \in k..e : s[j] \notin Whitespace
        /\ e = Len(s) \/ s[e + 1] \in Whitespace
Words(s) ==
    [i \in 1..Cardinality(WordStarts(s)) |->
        SubSeq(s, Nth(WordStarts(s), i), WordEnd(s, Nth(WordStarts(s), i)))]

\* the listed names that are files under srcdir, each joined to srcdir, in
\* listed order
ExistingUnder(plat, fs, srcdir, files) ==
    LET w == Words(files)
        keep == { i \in 1..Len(w) :
                    isfile(plat, fs, path_join(plat, srcdir, w[i])) }
    IN [i \in 1..Cardinality(keep) |-> path_join(plat, srcdir, w[Nth(keep, i)])]

\* every ';' of s replaced by one space
SemicolonsToSpaces(s) ==
    [i \in 1..Len(s) |-> IF s[i] = ";" THEN " " ELSE s[i]]

-----------------------------------------------------------------------------
(* C1: when a compiler invocation exits non-zero, it is the last command of *)
(* the run: the process has ended with a non-zero status, the failing       *)
(* compile is the last step performed, no step of any kind was performed    *)
(* for a program declared later, and nothing more can happen.               *)
C1_AbortOnCompileFailure ==
    \A k \in 1..Len(commands) :
        commands[k].status # 0 =>
            /\ k = Len(commands)
            /\ pc = "exit"
            /\ exitcode \notin {Running, 0}
            /\ error = "CompileError"
            /\ trace[Len(trace)] = <<"compile_program", progdic[idx]>>
            /\ NothingAfter(idx)
            /\ ~ENABLED Next

\* the first of two declared programs failed to compile
C1_Witness ==
    /\ Len(progdic) = 2
    /\ idx = 1
    /\ Len(commands) = 1
    /\ commands[1].status # 0

-----------------------------------------------------------------------------
(* C3, as claimed: if some declared program has no file= entry, no compiler *)
(* invocation happens for any program of the file.                          *)
C3_NoInvocationAtAll ==
    (Started /\ \E k \in 1..Len(progdic) : get(filedic, progdic[k]) = None)
        => commands = <<>>

(* C3, amended: a declared program P with no file= entry gets no step but   *)
(* the file-list check, no step is performed for a program declared after   *)
(* P, and once main reaches P the run has ended with MissingFileList and a  *)
(* non-zero status, every program declared before P having been built.      *)
C3_AbortAtMissingFileList ==
    Started =>
        \A k \in 1..Len(progdic) :
            get(filedic, progdic[k]) = None =>
                /\ IsPrefix(StepsOf(progdic[k]), <<"check_files">>)
                /\ NothingAfter(k)
                /\ Did("check_files", progdic[k]) =>
                      /\ pc = "exit"
                      /\ exitcode = 1
                      /\ error = "MissingFileList"
                      /\ idx = k
                      /\ AllBuiltBefore(k)

\* the second program lacks its file list and the first one was built
C3_Witness ==
    /\ error = "MissingFileList"
    /\ idx = 2
    /\ get(filedic, progdic[2]) = None
    /\ Len(commands) = 1

-----------------------------------------------------------------------------
(* C4, as claimed: a run that aborts with SourceDirNotFound has invoked no  *)
(* compiler, for that program or for any program declared earlier.          *)
C4_NoInvocationBeforeSourceDirNotFound ==
    error = "SourceDirNotFound" => commands = <<>>

(* C4, amended: once validate_sources has run for a program P whose src     *)
(* value names no existing directory, the run has ended with                *)
(* SourceDirNotFound and a non-zero status, with no compiler invocation for *)
(* P or a program declared after P; the programs declared before P have     *)
(* been compiled.                                                           *)
C4_AbortAtSourceDirNotFound ==
    \A k \in 1..Len(progdic) :
        ( /\ Did("validate_sources", progdic[k])
          /\ get(srcdic, progdic[k]) # None
          /\ ~isdir(system_platform, disk, get(srcdic, progdic[k])) )
        => /\ pc = "exit"
           /\ exitcode = 1
           /\ error = "SourceDirNotFound"
           /\ idx = k
           /\ trace[Len(trace)] = <<"validate_sources", progdic[k]>>
           /\ NothingAfter(k)
           /\ AllBuiltBefore(k)

\* the second program's src is missing and the first one was compiled
C4_Witness ==
    /\ error = "SourceDirNotFound"
    /\ idx = 2
    /\ Len(commands) = 1

-----------------------------------------------------------------------------
(* C8: a program with no option= entry whose sources were validated goes on *)
(* to its compiler invocation: the run does not end at the option step.     *)
C8_OptionIsOptional ==
    \A k \in 1..Len(progdic) :
        (get(optdic, progdic[k]) = None /\ Did("validate_options", progdic[k]))
        => (pc = "compile" /\ idx = k) \/ Did("compile_program", progdic[k])

-----------------------------------------------------------------------------
(* C9: the steps performed for each program are an initial part of: file    *)
(* list check, prepare_directories, validate_sources, validate_options,     *)
(* compile_program, and programs are taken in declaration order. A run that *)
(* ended with SourceDirNotFound or NoValidSourceFiles for P has P's binDir  *)
(* on disk; one that ended with MissingFileList for P performed only the    *)
(* file-list check for P; one that ended on a missing or uncreatable binDir *)
(* performed neither validate_sources nor compile_program for P.            *)
C9_StepOrder ==
    /\ \A k \in 1..Len(progdic) : IsPrefix(StepsOf(progdic[k]), StepOrder)
    /\ \A e \in 1..Len(trace), j \in 1..Len(progdic) :
          (e < Len(trace) /\ trace[e][2] = progdic[j])
          => trace[e + 1][2] \in {progdic[j]} \cup
                 {progdic[i] : i \in {j + 1} \cap (1..Len(progdic))}
    /\ error \in {"SourceDirNotFound", "NoValidSourceFiles"} =>
          /\ isdir(system_platform, disk, get(bindic, progdic[idx]))
          /\ StepsOf(progdic[idx]) = SubSeq(StepOrder, 1, 3)
    /\ error = "MissingFileList" =>
          StepsOf(progdic[idx]) = SubSeq(StepOrder, 1, 1)
    /\ error \in {"MissingBinDir", "BinDirCreateFailed"} =>
          /\ StepsOf(progdic[idx]) = SubSeq(StepOrder, 1, 2)
          /\ Len(commands) = idx - 1

\* a run ended on its sources after it created the binary directory
C9_Witness ==
    /\ error = "NoValidSourceFiles"
    /\ get(bindic, progdic[idx]) = <<"o">>
    /\ <<"o">> \in dirs
    /\ <<"o">> \notin InitDirs

-----------------------------------------------------------------------------
(* C5: right after validate_sources ran for a program whose src directory   *)
(* exists, either the sub-sequence of its listed names that are files under *)
(* src is empty and the run has ended with NoValidSourceFiles, or the run   *)
(* goes on and source_files is exactly that sub-sequence, each name joined  *)
(* to src, listed order and duplicates kept.                                *)
C5_ValidateSources ==
    ( /\ trace # <<>>
      /\ idx \in 1..Len(progdic)
      /\ trace[Len(trace)] = <<"validate_sources", progdic[idx]>>
      /\ get(srcdic, progdic[idx]) # None
      /\ isdir(system_platform, disk, get(srcdic, progdic[idx])) )
    => IF ExistingUnder(system_platform, disk, get(srcdic, progdic[idx]),
                        get(filedic, progdic[idx])) = <<>>
       THEN /\ pc = "exit"
            /\ exitcode = 1
            /\ error = "NoValidSourceFiles"
       ELSE /\ pc = "options"
            /\ exitcode = Running
            /\ source_files =
                   ExistingUnder(system_platform, disk,
                                 get(srcdic, progdic[idx]),
                                 get(filedic, progdic[idx]))

\* a list with a missing name between two mentions of one existing file
C5_Witness ==
    /\ pc = "options"
    /\ Len(Words(get(filedic, progdic[idx]))) = 3
    /\ Len(source_files) = 2
    /\ source_files[1] = source_files[2]

-----------------------------------------------------------------------------
(* C6: every command line, when it is issued, is the compiler, the listed   *)
(* names of the program that are files under its src directory, joined to   *)
(* it and in listed order, "-g", "-o", the output path, and one last        *)
(* argument: the program's option value with every ';' replaced by a space. *)
C6_CommandLine ==
    [][ Len(commands') = Len(commands) + 1 =>
          LET p == progdic[idx]
              sources == ExistingUnder(system_platform, disk, get(srcdic, p),
                                       get(filedic, p))
              argv == commands'[Len(commands')].argv
          IN
          /\ Len(argv) = Len(sources) + 5
          /\ argv =
                 <<compiler>> \o sources
                     \o << <<"-", "g">>, <<"-", "o">>,
                           path_join(system_platform, get(bindic, p),
                                     get_binary_name(system_platform, p)),
                           SemicolonsToSpaces(get(optdic, p)) >> ]_vars

\* a command whose option value holds a ';' between two tokens
C6_Witness ==
    /\ Len(commands) >= 1
    /\ get(optdic, Compiled[1]) = <<"W", ";", "O">>
    /\ commands[1].argv[Len(commands[1].argv)] = <<"W", " ", "O">>

-----------------------------------------------------------------------------
(* The build file as its lines say it, read off the recorded history *)

\* the line without its leading and trailing whitespace
Body(line) ==
    LET ink == { k \in 1..Len(line) : line[k] \notin Whitespace }
    IN IF ink = {} THEN <<>>
       ELSE SubSeq(line, Nth(ink, 1), Nth(ink, Cardinality(ink)))

\* the line is a key=value line
IsEntry(line) ==
    /\ Body(line) # <<>>
    /\ Body(line)[1] # "#"
    /\ \E k \in 1..Len(Body(line)) : Body(line)[k] = "="

EqualsAt(line) ==
    Nth({ k \in 1..Len(Body(line)) : Body(line)[k] = "=" }, 1)

KeyOf(line) ==
    IF IsEntry(line) THEN SubSeq(Body(line), 1, EqualsAt(line) - 1) ELSE None

ValueOf(line) ==
    SubSeq(Body(line), EqualsAt(line) + 1, Len(Body(line)))

\* what each line of the build file says: its key (None when it is no
\* key=value line) and its value
Entry ==
    [line \in Lines \cup ParseLines \cup OrderLines |->
        [key |-> KeyOf(line),
         value |-> IF IsEntry(line) THEN ValueOf(line) ELSE None]]

Last(S) == CHOOSE k \in S : \A j \in S : j <= k

\* the program whose scope is open at line k of the history, None before the
\* first prog= line
ScopeAt(k) ==
    LET opened == { j \in 1..k : Entry[log[j]].key = K_prog }
    IN IF opened = {} THEN None ELSE Entry[log[Last(opened)]].value

\* the value of the last `key` line read in a scope of program p
LastInScope(key, p) ==
    LET said == { k \in 1..Len(log) :
                    Entry[log[k]].key = key /\ ScopeAt(k) = p }
    IN IF said = {} THEN None ELSE Entry[log[Last(said)]].value

ProgramNames == { <<"a">>, <<"b">> }

-----------------------------------------------------------------------------
(* C7: while and after load_bldfile reads lines that start with a prog=     *)
(* line, each program's src, bin, file and option value is the value of the *)
(* last such line read in a scope of that program, and absent when there is *)
(* none: lines of another scope, comments, blank lines and lines with other *)
(* keys leave it alone.                                                     *)
C7_LastEntryInScopeWins ==
    (pc \in {"load", "detect"} /\ log # <<>> /\ Entry[log[1]].key = K_prog)
    => \A p \in ProgramNames :
          /\ get(srcdic, p) = LastInScope(K_src, p)
          /\ get(bindic, p) = LastInScope(K_bin, p)
          /\ get(filedic, p) = LastInScope(K_file, p)
          /\ get(optdic, p) = LastInScope(K_option, p)

\* a program's scope re-opened after another program's, then given a value
C7_Witness ==
    /\ pc = "load"
    /\ Len(log) = 4
    /\ ScopeAt(1) = <<"a">>
    /\ ScopeAt(2) = <<"b">>
    /\ ScopeAt(3) = <<"a">>
    /\ Entry[log[4]].key = K_src
    /\ srcdic = OneDict(<<"a">>, Entry[log[4]].value)

-----------------------------------------------------------------------------
(* C10: once a src=, bin=, file= or option= line is read before any prog=   *)
(* line, the run has ended at that line with a non-zero status through the  *)
(* read-error path: no compiler was detected or invoked, no directory was   *)
(* created, no value was stored for any program, and nothing more happens.  *)
C10_FieldBeforeProg ==
    \A k \in 1..Len(log) :
        ( /\ Entry[log[k]].key \in {K_src, K_bin, K_file, K_option}
          /\ ScopeAt(k) = None )
        => /\ k = Len(log)
           /\ pc = "exit"
           /\ exitcode = 1
           /\ error = "ConfigReadError"
           /\ compiler = None
           /\ system_platform = "unknown"
           /\ dirs = InitDirs
           /\ commands = <<>>
           /\ trace = <<>>
           /\ \A p \in ProgramNames \cup {Unbound} :
                 /\ get(srcdic, p) = None
                 /\ get(bindic, p) = None
                 /\ get(filedic, p) = None
                 /\ get(optdic, p) = None
           /\ ~ENABLED Next

\* a field line read after a comment and a line with another key, no prog=
\* line before it
C10_Witness ==
    /\ Len(log) = 3
    /\ Entry[log[1]].key = None
    /\ Entry[log[2]].key = <<"k">>
    /\ Entry[log[3]].key = K_bin
    /\ pc = "exit"

-----------------------------------------------------------------------------
(* The order in which the prog= names of the history first appeared *)

\* the positions of the history at which a name appears for the first time
FirstMentions ==
    { k \in 1..Len(log) :
        \A j \in 1..(k - 1) : Entry[log[j]].value # Entry[log[k]].value }

\* the distinct prog= names of the history, in order of first appearance
FirstAppearance ==
    [i \in 1..Cardinality(FirstMentions) |->
        Entry[log[Nth(FirstMentions, i)]].value]

(* C2: a run that ends with status 0 has invoked the compiler exactly once  *)
(* for each distinct prog= name of the file, in the order in which the      *)
(* names first appeared: a repeated prog= line adds no invocation and moves *)
(* no program.                                                              *)
C2_JobsInDeclarationOrder ==
    (pc = "exit" /\ exitcode = 0)
    => /\ Len(commands) =
              Cardinality({ Entry[log[k]].value : k \in 1..Len(log) })
       /\ Compiled = FirstAppearance

\* two programs built, the first one's prog= line repeated after the second's
C2_Witness ==
    /\ pc = "exit"
    /\ exitcode = 0
    /\ Len(log) = 3
    /\ Entry[log[1]].value = Entry[log[3]].value
    /\ Entry[log[1]].value # Entry[log[2]].value
    /\ Len(commands) = 2

====
